---- MODULE Spec2Model ----
(***************************************************************************)
(* Model of soccer.py: the prediction engine (calculate_team_points,       *)
(* get_confrontation_historical, get_confrontation_indirect,               *)
(* find_most_probable_score, get_match_prediction) and the prediction loop *)
(* of the __main__ block.                                                  *)
(*                                                                         *)
(* The win rates, goal averages and composite scores, which Python holds   *)
(* as floats, are modelled as the exact ratios <<n, d>> (lowest terms,     *)
(* d > 0) of the integers they are computed from.  The probabilities of    *)
(* find_most_probable_score, which the code tests for equality, are        *)
(* modelled as the floats themselves, with their rounding.                 *)
(***************************************************************************)
EXTENDS Integers, Sequences, FiniteSets, TLC

VARIABLES
  pc,                     \* position of the program / of the call harness
  call,                   \* the function call made by the harness, with its outcome
  FINISHED_MATCHS,        \* soccer.py:589
  SCHEDULED_MATCHS,       \* soccer.py:584
  prediction_list,        \* soccer.py:598
  match_date_str,         \* soccer.py:608 (module global, unbound until first assigned)
  home_score,             \* soccer.py:630
  away_score,             \* soccer.py:631
  tmp_res,                \* soccer.py:651
  exact_score,            \* soccer.py:657
  prediction_list_sorted, \* soccer.py:671
  av_goals,               \* soccer.py:678
  printed,                \* lines written by the print loop, soccer.py:689
  raised                  \* the exception that ended the program, or "none"

vars == <<pc, call, FINISHED_MATCHS, SCHEDULED_MATCHS, prediction_list,
          match_date_str, home_score, away_score, tmp_res, exact_score,
          prediction_list_sorted, av_goals, printed, raised>>

(***************************************************************************)
(* Bounds of the model                                                     *)
(***************************************************************************)
MaxLen == 3         \* longest match list handed to a form/confrontation function
MaxTotalGoals == 5  \* largest total_goals handed to find_most_probable_score
MaxAvgNum == 6        \* goal averages 0, 1/2, ..., MaxAvgNum/2 in the calls

(***************************************************************************)
(* Program constants                                                       *)
(***************************************************************************)
MAX_SCORE == 100
WIN_VALUE == 2
DRAW_VALUE == 1
LOSE_VALUE == -1
WIN_WEIGHT == 2
DRAW_WEIGHT == 1
LOSE_WEIGHT == 2

Teams == {"A", "B", "X"}

\* score.fullTime of a match record: <<home, away>>, or NoScore when the
\* fullTime entry is missing or its goals are not integers
NoScore == <<>>
\* a home win, an away win and a draw
Scores == { <<2, 1>>, <<0, 1>>, <<1, 1>> }

\* a Python name before its first assignment, and after it
Unbound == [bound |-> FALSE]
Bound(v) == [bound |-> TRUE, value |-> v]

\* a finished-match record as the engine reads it (shortName of both sides
\* and score.fullTime)
MatchRecords ==
  { [homeTeam |-> h, awayTeam |-> a, fullTime |-> s] :
      h \in Teams, a \in Teams, s \in Scores \cup {NoScore} }

FinishedRecords == { m \in MatchRecords : m.homeTeam /= m.awayTeam }

(***************************************************************************)
(* Rational arithmetic for Python's float values                           *)
(***************************************************************************)
Abs(x) == IF x < 0 THEN -x ELSE x

RECURSIVE GCD(_, _)
GCD(a, b) == IF b = 0 THEN a ELSE GCD(b, a % b)

\* n / d in lowest terms, d > 0
Rat(n, d) ==
  LET g == GCD(Abs(n), d)
  IN <<n \div g, d \div g>>

RatInt(n) == <<n, 1>>
RatMul(x, y) == Rat(x[1] * y[1], x[2] * y[2])
RatAdd(x, y) == Rat(x[1] * y[2] + y[1] * x[2], x[2] * y[2])
RatHalf(x) == Rat(x[1], 2 * x[2])
RatLess(x, y) == x[1] * y[2] < y[1] * x[2]
RatLeq(x, y) == x[1] * y[2] <= y[1] * x[2]

RECURSIVE RatPow(_, _)
RatPow(x, k) == IF k = 0 THEN RatInt(1) ELSE RatMul(x, RatPow(x, k - 1))

RECURSIVE Factorial(_)
Factorial(k) == IF k = 0 THEN 1 ELSE k * Factorial(k - 1)

\* int(round(x)) for x >= 0: Python rounds halves to the even neighbour
PyRound(x) ==
  LET q == x[1] \div x[2]
      r == x[1] % x[2]
  IN IF 2 * r < x[2] THEN q
     ELSE IF 2 * r > x[2] THEN q + 1
     ELSE IF q % 2 = 0 THEN q ELSE q + 1

(***************************************************************************)
(* calculate_team_points, soccer.py:154-224                                *)
(***************************************************************************)
EmptyRecord ==
  [ Home_Win |-> 0, Home_Draw |-> 0, Home_Lose |-> 0, Home_Total |-> 0,
    Away_Win |-> 0, Away_Draw |-> 0, Away_Lose |-> 0, Away_Total |-> 0,
    Game_Goals |-> 0, Home_Goals |-> 0, Away_Goals |-> 0,
    Home_W_Weight |-> RatInt(0), Away_W_Weight |-> RatInt(0),
    Home_WD_Weight |-> RatInt(0), Away_WD_Weight |-> RatInt(0),
    Score |-> 0, Average_Goals |-> RatInt(0) ]

\* the match passes the two `continue` tests of the loop (lines 167-172)
Qualifies(match, team_name) ==
  /\ match.fullTime /= NoScore
  /\ team_name \in {match.homeTeam, match.awayTeam}

\* one iteration of the for loop, lines 163-210; st carries the record and
\* the local is_home_game, which keeps its value between iterations (it is
\* unbound until the first qualifying match; it is read at line 217 only
\* after line 216 has divided by total_games, which raises in that case)
PointsStep(st, match, team_name) ==
  IF ~Qualifies(match, team_name) THEN st
  ELSE
    LET home_goals == match.fullTime[1]
        away_goals == match.fullTime[2]
        is_home_game == (match.homeTeam = team_name)
        result == IF home_goals = away_goals THEN "Draw"
                  ELSE IF is_home_game
                       THEN (IF home_goals > away_goals THEN "Win" ELSE "Lose")
                       ELSE (IF away_goals > home_goals THEN "Win" ELSE "Lose")
        r == st.record
        counted ==
          IF is_home_game
          THEN [r EXCEPT
                  !.Home_Win = @ + (IF result = "Win" THEN 1 ELSE 0),
                  !.Home_Draw = @ + (IF result = "Draw" THEN 1 ELSE 0),
                  !.Home_Lose = @ + (IF result = "Lose" THEN 1 ELSE 0),
                  !.Home_Total = @ + 1,
                  !.Home_Goals = @ + home_goals,
                  !.Away_Goals = @ + away_goals]
          ELSE [r EXCEPT
                  !.Away_Win = @ + (IF result = "Win" THEN 1 ELSE 0),
                  !.Away_Draw = @ + (IF result = "Draw" THEN 1 ELSE 0),
                  !.Away_Lose = @ + (IF result = "Lose" THEN 1 ELSE 0),
                  !.Away_Total = @ + 1,
                  !.Home_Goals = @ + away_goals,
                  !.Away_Goals = @ + home_goals]
    IN [record |-> [counted EXCEPT !.Game_Goals = @ + home_goals + away_goals],
        is_home_game |-> is_home_game]

RECURSIVE PointsLoop(_, _, _, _)
PointsLoop(matches, team_name, i, st) ==
  IF i > Len(matches) THEN st
  ELSE PointsLoop(matches, team_name, i + 1, PointsStep(st, matches[i], team_name))

\* lines 216-223: the average that is stored in Average_Goals
AverageGoals(r, is_home_game) ==
  IF is_home_game /\ r.Home_Total > 0
    THEN Rat(r.Home_Goals, r.Home_Total)
  ELSE IF ~is_home_game /\ r.Away_Total > 0
    THEN Rat(r.Away_Goals, r.Away_Total)
  ELSE Rat(r.Home_Goals + r.Away_Goals, r.Home_Total + r.Away_Total)

\* the whole function: [raised |-> "none", value |-> record] on return,
\* [raised |-> "ZeroDivisionError"] when line 216 divides by total_games = 0
calculate_team_points(matches, team_name) ==
  LET st == PointsLoop(matches, team_name, 1,
                       [record |-> EmptyRecord, is_home_game |-> FALSE])
      r == st.record
      total_games == r.Home_Total + r.Away_Total
      weighted ==
        [r EXCEPT
           !.Home_W_Weight = IF r.Home_Total > 0 THEN Rat(r.Home_Win, r.Home_Total) ELSE RatInt(0),
           !.Away_W_Weight = IF r.Away_Total > 0 THEN Rat(r.Away_Win, r.Away_Total) ELSE RatInt(0),
           !.Home_WD_Weight = IF r.Home_Total > 0 THEN Rat(r.Home_Win + r.Home_Draw, r.Home_Total) ELSE RatInt(0),
           !.Away_WD_Weight = IF r.Away_Total > 0 THEN Rat(r.Away_Win + r.Away_Draw, r.Away_Total) ELSE RatInt(0)]
  IN IF total_games = 0
     THEN [raised |-> "ZeroDivisionError"]
     ELSE [raised |-> "none",
           value |-> [weighted EXCEPT !.Average_Goals = AverageGoals(r, st.is_home_game)]]

(***************************************************************************)
(* get_confrontation_matches, soccer.py:229-238                            *)
(***************************************************************************)
\* faulty variant: only the fixtures with team_a at home are kept
IsDirectOneWay(match, team_a, team_b) ==
  match.homeTeam = team_a /\ match.awayTeam = team_b

IsDirect(match, team_a, team_b) ==
  \/ (match.homeTeam = team_a /\ match.awayTeam = team_b)
  \/ (match.homeTeam = team_b /\ match.awayTeam = team_a)

\* the filtered list; the empty sequence stands for the None of line 237
get_confrontation_matches(matches, team_a, team_b) ==
  SelectSeq(matches, LAMBDA match : IsDirect(match, team_a, team_b))

(***************************************************************************)
(* get_confrontation_historical, soccer.py:243-305                         *)
(***************************************************************************)
NeutralH2H ==
  [ Team_A_Score |-> 0, Team_A_Weight |-> RatInt(1),
    Team_B_Score |-> 0, Team_B_Weight |-> RatInt(1), Total_Matches |-> 0 ]

\* one iteration of the for loop, lines 252-286; acc holds the five counters
H2HStep(acc, match, team_a) ==
  IF match.fullTime = NoScore THEN acc
  ELSE
    LET home_score_ == match.fullTime[1]
        away_score_ == match.fullTime[2]
        counted == [acc EXCEPT !.total_matches = @ + 1]
    IN IF home_score_ = away_score_
         THEN [counted EXCEPT !.team_a_score = @ + DRAW_VALUE * DRAW_WEIGHT,
                              !.team_b_score = @ + DRAW_VALUE * DRAW_WEIGHT]
       ELSE IF home_score_ > away_score_
         THEN IF match.homeTeam = team_a
                THEN [counted EXCEPT !.team_a_score = @ + WIN_VALUE,
                                     !.team_b_score = @ + LOSE_VALUE,
                                     !.team_a_win = @ + 1]
                ELSE [counted EXCEPT !.team_b_score = @ + WIN_VALUE,
                                     !.team_a_score = @ + LOSE_VALUE,
                                     !.team_b_win = @ + 1]
       ELSE IF match.awayTeam = team_a
                THEN [counted EXCEPT !.team_a_score = @ + WIN_VALUE * WIN_WEIGHT,
                                     !.team_b_score = @ + LOSE_VALUE * LOSE_WEIGHT,
                                     !.team_a_win = @ + 1]
                ELSE [counted EXCEPT !.team_b_score = @ + WIN_VALUE * WIN_WEIGHT,
                                     !.team_a_score = @ + LOSE_VALUE * LOSE_WEIGHT,
                                     !.team_b_win = @ + 1]

RECURSIVE H2HLoop(_, _, _, _)
H2HLoop(h2h_matches, team_a, i, acc) ==
  IF i > Len(h2h_matches) THEN acc
  ELSE H2HLoop(h2h_matches, team_a, i + 1, H2HStep(acc, h2h_matches[i], team_a))

\* lines 287-291
H2HWeight(wins, total_matches) ==
  IF total_matches > 0 THEN Rat(wins, total_matches) ELSE RatInt(1)

get_confrontation_historical(h2h_mat, team_a, team_b) ==
  LET h2h_matches == get_confrontation_matches(h2h_mat, team_a, team_b)
      acc == H2HLoop(h2h_matches, team_a, 1,
                     [team_a_score |-> 0, team_a_win |-> 0, team_b_score |-> 0,
                      team_b_win |-> 0, total_matches |-> 0])
  IN IF h2h_matches = <<>> THEN NeutralH2H
     ELSE [ Team_A_Score |-> acc.team_a_score,
            Team_A_Weight |-> H2HWeight(acc.team_a_win, acc.total_matches),
            Team_B_Score |-> acc.team_b_score,
            Team_B_Weight |-> H2HWeight(acc.team_b_win, acc.total_matches),
            Total_Matches |-> acc.total_matches ]

(***************************************************************************)
(* get_confrontation_indirect, soccer.py:310-383                           *)
(***************************************************************************)
\* match2 passes the `continue` tests of the inner loop, lines 341-348
LinksTo(match2, team_a, team_b, search_indirect) ==
  /\ team_a \notin {match2.homeTeam, match2.awayTeam}
  /\ match2.fullTime /= NoScore
  /\ team_b \in {match2.homeTeam, match2.awayTeam}
  /\ search_indirect \in {match2.homeTeam, match2.awayTeam}

\* faulty variant: the inner loop keeps searching and counts the last link
RECURSIVE LastLink(_, _, _, _, _)
LastLink(matches, team_a, team_b, search_indirect, j) ==
  IF j > Len(matches) THEN 0
  ELSE LET later == LastLink(matches, team_a, team_b, search_indirect, j + 1)
       IN IF later /= 0 THEN later
          ELSE IF LinksTo(matches[j], team_a, team_b, search_indirect) THEN j
          ELSE 0

\* the inner loop, lines 337-369: the index of the match2 at which it
\* breaks, 0 when it runs to the end without counting anything
RECURSIVE FirstLink(_, _, _, _, _)
FirstLink(matches, team_a, team_b, search_indirect, j) ==
  IF j > Len(matches) THEN 0
  ELSE IF LinksTo(matches[j], team_a, team_b, search_indirect) THEN j
  ELSE FirstLink(matches, team_a, team_b, search_indirect, j + 1)

\* the opponent of team_a in match, lines 331-334
SearchIndirect(match, team_a) ==
  IF team_a = match.homeTeam THEN match.awayTeam ELSE match.homeTeam

\* match passes the `continue` tests of the outer loop, lines 325-336
IsFixtureOfA(match, team_a, team_b) ==
  /\ match.fullTime /= NoScore
  /\ team_a \in {match.homeTeam, match.awayTeam}
  /\ team_b /= SearchIndirect(match, team_a)

\* the counters after one link is counted, lines 349-365
CountLink(c, match, match2, team_a, team_b) ==
  LET a_home == (team_a = match.homeTeam)
      a_won == IF a_home THEN match.fullTime[1] > match.fullTime[2]
               ELSE match.fullTime[2] > match.fullTime[1]
      b_home == (team_b = match2.homeTeam)
      b_won == IF b_home THEN match2.fullTime[1] > match2.fullTime[2]
               ELSE match2.fullTime[2] > match2.fullTime[1]
  IN [ team_a_win |-> c.team_a_win + (IF a_won THEN 1 ELSE 0),
       team_a_win_home |-> c.team_a_win_home + (IF a_home /\ a_won THEN 1 ELSE 0),
       team_b_win |-> c.team_b_win + (IF b_won THEN 1 ELSE 0),
       team_b_win_away |-> c.team_b_win_away + (IF ~b_home /\ b_won THEN 1 ELSE 0),
       total_matches |-> c.total_matches + 1,
       total_matches_home |-> c.total_matches_home + (IF a_home THEN 1 ELSE 0),
       total_matches_away |-> c.total_matches_away + (IF ~b_home THEN 1 ELSE 0) ]

\* the outer loop, lines 321-369
RECURSIVE IndirectLoop(_, _, _, _, _)
IndirectLoop(matches, team_a, team_b, i, c) ==
  IF i > Len(matches) THEN c
  ELSE
    LET match == matches[i]
        j == IF IsFixtureOfA(match, team_a, team_b)
             THEN FirstLink(matches, team_a, team_b, SearchIndirect(match, team_a), 1)
             ELSE 0
    IN IndirectLoop(matches, team_a, team_b, i + 1,
                    IF j = 0 THEN c ELSE CountLink(c, match, matches[j], team_a, team_b))

IndirectCounters(matches, team_a, team_b) ==
  IndirectLoop(matches, team_a, team_b, 1,
               [ team_a_win |-> 0, team_a_win_home |-> 0, team_b_win |-> 0,
                 team_b_win_away |-> 0, total_matches |-> 0,
                 total_matches_home |-> 0, total_matches_away |-> 0 ])

\* a rate of lines 370-373: 1.0 when its denominator is 0
IndirectRate(wins, total) == IF total > 0 THEN Rat(wins, total) ELSE RatInt(1)

\* faulty variant: the neutral special case of line 381 is left out
IndirectResultNoNeutral(c) ==
  <<IndirectRate(c.team_a_win, c.total_matches), IndirectRate(c.team_b_win, c.total_matches)>>

\* lines 370-383: the pair that is returned
IndirectResult(c) ==
  LET wa == IndirectRate(c.team_a_win, c.total_matches)
      wb == IndirectRate(c.team_b_win, c.total_matches)
      wa_home == RatMul(IndirectRate(c.team_a_win_home, c.total_matches_home), wa)
      wb_away == RatMul(IndirectRate(c.team_b_win_away, c.total_matches_away), wb)
  IN IF c.total_matches = 0 \/ (c.team_a_win = 0 /\ c.team_b_win = 0)
     THEN <<RatInt(1), RatInt(1)>>
     ELSE <<wa, wb>>

get_confrontation_indirect(matches, team_a, team_b) ==
  IndirectResult(IndirectCounters(matches, team_a, team_b))

(***************************************************************************)
(* Python floats: IEEE 754 binary64, round to nearest, ties to even.       *)
(*                                                                         *)
(* The probabilities that find_most_probable_score compares with > and ==  *)
(* are floats, and whether two of them are equal depends on how each was   *)
(* rounded.  A float is kept here as sign * m * 2^e with a mantissa m of   *)
(* exactly MantissaBits bits, so that equal floats are equal values.  The  *)
(* mantissa is a natural number too large for one integer of TLC:          *)
(* it is a sequence of limbs, least significant first, in base LimbBase,   *)
(* without leading zero limbs.  The floats met here are far from the       *)
(* overflow and the subnormal range.                                       *)
(***************************************************************************)
LimbBits == 15
LimbBase == 32768
MantissaBits == 53

\* F applied to the value of x (of x and y): the operand is evaluated once,
\* as the one element of a set, before F reads it limb by limb
Once(F(_), x) == CHOOSE r \in { F(v) : v \in {x} } : TRUE
Once2(F(_, _), x, y) == CHOOSE r \in { F(u, v) : u \in {x}, v \in {y} } : TRUE

RECURSIVE TopLimb(_, _)
TopLimb(x, n) == IF n = 0 \/ x[n] /= 0 THEN n ELSE TopLimb(x, n - 1)

BigNorm(x) == Once(LAMBDA v : SubSeq(v, 1, TopLimb(v, Len(v))), x)

RECURSIVE BigFromInt(_)
BigFromInt(n) ==
  IF n = 0 THEN <<>> ELSE <<n % LimbBase>> \o BigFromInt(n \div LimbBase)

RECURSIVE BigAddLoop(_, _, _, _)
BigAddLoop(x, y, i, carry) ==
  IF i > Len(x) /\ i > Len(y) THEN BigFromInt(carry)
  ELSE Once(LAMBDA t : <<t % LimbBase>> \o BigAddLoop(x, y, i + 1, t \div LimbBase),
            (IF i <= Len(x) THEN x[i] ELSE 0) + (IF i <= Len(y) THEN y[i] ELSE 0) + carry)

BigAdd(x, y) == Once2(LAMBDA u, v : BigAddLoop(u, v, 1, 0), x, y)

\* x * s for one limb s
RECURSIVE BigMulSmallLoop(_, _, _, _)
BigMulSmallLoop(x, s, i, carry) ==
  IF i > Len(x) THEN BigFromInt(carry)
  ELSE Once(LAMBDA t : <<t % LimbBase>> \o BigMulSmallLoop(x, s, i + 1, t \div LimbBase),
            x[i] * s + carry)

BigMulSmall(x, s) == BigNorm(Once2(LAMBDA u, v : BigMulSmallLoop(u, v, 1, 0), x, s))

RECURSIVE BigMulLoop(_, _, _)
BigMulLoop(x, y, j) ==
  IF j > Len(y) THEN <<>>
  ELSE BigAdd(BigMulSmall(x, y[j]), <<0>> \o BigMulLoop(x, y, j + 1))

BigMul(x, y) == BigNorm(Once2(LAMBDA u, v : BigMulLoop(u, v, 1), x, y))

RECURSIVE BigPow(_, _)
BigPow(x, k) == IF k = 0 THEN <<1>> ELSE BigMul(BigPow(x, k - 1), x)

\* quotient and remainder of x by a divisor d that fits TLC's integers
RECURSIVE BigDivSmallLoop(_, _, _, _)
BigDivSmallLoop(x, d, i, rem) ==
  IF i = 0 THEN [q |-> <<>>, r |-> rem]
  ELSE Once2(LAMBDA t, rest : [q |-> Append(rest.q, t \div d), r |-> rest.r],
             rem * LimbBase + x[i],
             BigDivSmallLoop(x, d, i - 1, (rem * LimbBase + x[i]) % d))

BigDivSmall(x, d) ==
  Once(LAMBDA res : [q |-> BigNorm(res.q), r |-> res.r],
       Once2(LAMBDA u, v : BigDivSmallLoop(u, v, Len(u), 0), x, d))

RECURSIVE BitLen(_)
BitLen(n) == IF n = 0 THEN 0 ELSE 1 + BitLen(n \div 2)

BigBitLen(x) ==
  Once(LAMBDA v : IF v = <<>> THEN 0 ELSE LimbBits * (Len(v) - 1) + BitLen(v[Len(v)]), x)

BigShiftLeft(x, s) ==
  [i \in 1..(s \div LimbBits) |-> 0] \o BigMulSmall(x, 2^(s % LimbBits))

\* x shifted right by s bits; sticky tells whether a nonzero bit was dropped
BigShiftRight(x, s) ==
  Once2(LAMBDA v, limbs :
          Once(LAMBDA d : [q |-> d.q,
                           sticky |-> d.r /= 0 \/ \E i \in 1..limbs : i <= Len(v) /\ v[i] /= 0],
               BigDivSmall(IF limbs >= Len(v) THEN <<>> ELSE SubSeq(v, limbs + 1, Len(v)),
                           2^(s % LimbBits))),
        x, s \div LimbBits)

RECURSIVE BigLessFrom(_, _, _)
BigLessFrom(x, y, i) ==
  IF i = 0 THEN FALSE
  ELSE IF x[i] /= y[i] THEN x[i] < y[i]
  ELSE BigLessFrom(x, y, i - 1)

BigLess(x, y) ==
  Once2(LAMBDA u, v : IF Len(u) /= Len(v) THEN Len(u) < Len(v) ELSE BigLessFrom(u, v, Len(u)),
        x, y)

FloatZero == [sign |-> 0, e |-> 0, m |-> <<>>]

\* a mantissa m1 of MantissaBits bits, or of one more after a carry
RoundCarry(m1, e) ==
  Once(LAMBDA v : IF BigBitLen(v) > MantissaBits
                  THEN [sign |-> 1, e |-> e + 1, m |-> BigShiftRight(v, 1).q]
                  ELSE [sign |-> 1, e |-> e, m |-> v],
       m1)

\* y.q holds MantissaBits + 1 bits: the last one is the half, the rest is m0
RoundHalf(y, sticky, e) ==
  Once2(LAMBDA v, m0 :
          RoundCarry(IF v.q[1] % 2 = 1 /\ (sticky \/ v.sticky \/ m0[1] % 2 = 1)
                     THEN BigAdd(m0, <<1>>) ELSE m0, e),
        y, BigShiftRight(y.q, 1).q)

\* the float nearest to x * 2^e (+ a fraction of 2^e when sticky), x > 0
RoundToFloat(x, e, sticky) ==
  Once2(LAMBDA v, len :
          IF len <= MantissaBits
          THEN [sign |-> 1, e |-> e - (MantissaBits - len),
                m |-> BigShiftLeft(v, MantissaBits - len)]
          ELSE RoundHalf(BigShiftRight(v, len - MantissaBits - 1), sticky,
                         e + len - MantissaBits),
        x, BigBitLen(x))

FloatOfInt(n) ==
  IF n = 0 THEN FloatZero
  ELSE IF n < 0 THEN [RoundToFloat(BigFromInt(0 - n), 0, FALSE) EXCEPT !.sign = -1]
  ELSE RoundToFloat(BigFromInt(n), 0, FALSE)

\* int / int, lines 216-220: the float nearest to the quotient
FloatOfRat(x) ==
  IF x[1] = 0 THEN FloatZero
  ELSE Once(LAMBDA d : RoundToFloat(d.q, 0 - 5 * LimbBits, d.r /= 0),
            BigDivSmall(BigShiftLeft(BigFromInt(x[1]), 5 * LimbBits), x[2]))

\* float * float of non-negative floats
FloatMul(a, b) ==
  Once2(LAMBDA u, v : IF u.sign = 0 \/ v.sign = 0 THEN FloatZero
                      ELSE RoundToFloat(BigMul(u.m, v.m), u.e + v.e, FALSE),
        a, b)

\* float / int of a non-negative float and a positive int
FloatDivInt(a, n) ==
  Once(LAMBDA u : IF u.sign = 0 THEN FloatZero
                  ELSE Once(LAMBDA d : RoundToFloat(d.q, u.e - 2 * LimbBits, d.r /= 0),
                            BigDivSmall(BigShiftLeft(u.m, 2 * LimbBits), n)),
       a)

\* float ** int of a non-negative float and an int k >= 0
FloatPow(a, k) ==
  IF k = 0 THEN FloatOfInt(1)
  ELSE Once(LAMBDA u : IF u.sign = 0 THEN FloatZero
                       ELSE RoundToFloat(BigPow(u.m, k), k * u.e, FALSE),
            a)

\* a < b
FloatLess(a, b) ==
  Once2(LAMBDA u, v :
          IF u.sign /= v.sign THEN u.sign < v.sign
          ELSE IF u.sign = 0 THEN FALSE
          ELSE IF u.sign = 1 THEN u.e < v.e \/ (u.e = v.e /\ BigLess(u.m, v.m))
          ELSE v.e < u.e \/ (u.e = v.e /\ BigLess(v.m, u.m)),
        a, b)

(***************************************************************************)
(* math.exp(-lambda_val), line 392, for the goal averages n/d that the     *)
(* bounded match lists and calls can produce: the float nearest to         *)
(* e^(-n/d), as << <<n, d>>, e, m >>.                                      *)
(***************************************************************************)
ExpNegRows ==
  {
    << <<0, 1>>, -52, <<0, 0, 0, 128>> >>,
    << <<1, 8>>, -53, <<546, 18907, 30120, 225>> >>,
    << <<1, 7>>, -53, <<11160, 28995, 30170, 221>> >>,
    << <<1, 6>>, -53, <<9137, 12100, 22915, 216>> >>,
    << <<1, 5>>, -53, <<24921, 11308, 19499, 209>> >>,
    << <<1, 4>>, -53, <<523, 15705, 12222, 199>> >>,
    << <<2, 7>>, -53, <<15646, 14172, 12392, 192>> >>,
    << <<1, 3>>, -53, <<11941, 9310, 14156, 183>> >>,
    << <<3, 8>>, -53, <<3727, 11219, 31000, 175>> >>,
    << <<2, 5>>, -53, <<28910, 3300, 19724, 171>> >>,
    << <<3, 7>>, -53, <<23218, 29147, 25178, 166>> >>,
    << <<1, 2>>, -53, <<5642, 30943, 8907, 155>> >>,
    << <<4, 7>>, -53, <<27502, 31326, 18606, 144>> >>,
    << <<3, 5>>, -53, <<1251, 22316, 16245, 140>> >>,
    << <<5, 8>>, -53, <<5096, 9875, 882, 137>> >>,
    << <<2, 3>>, -53, <<29406, 31196, 14246, 131>> >>,
    << <<5, 7>>, -54, <<26705, 5353, 21146, 250>> >>,
    << <<3, 4>>, -54, <<19838, 22495, 27907, 241>> >>,
    << <<4, 5>>, -54, <<23432, 2819, 1849, 230>> >>,
    << <<5, 6>>, -54, <<2474, 568, 16852, 222>> >>,
    << <<6, 7>>, -54, <<3220, 29375, 9138, 217>> >>,
    << <<7, 8>>, -54, <<11595, 4795, 14200, 213>> >>,
    << <<1, 1>>, -54, <<28472, 27737, 11608, 188>> >>,
    << <<9, 8>>, -54, <<11040, 18671, 7276, 166>> >>,
    << <<8, 7>>, -54, <<28164, 6423, 9180, 163>> >>,
    << <<7, 6>>, -54, <<16933, 4938, 14367, 159>> >>,
    << <<6, 5>>, -54, <<4831, 11508, 6928, 154>> >>,
    << <<5, 4>>, -54, <<22607, 28244, 22624, 146>> >>,
    << <<9, 7>>, -54, <<21409, 15635, 17824, 141>> >>,
    << <<4, 3>>, -54, <<11761, 4035, 31514, 134>> >>,
    << <<11, 8>>, -54, <<24620, 16782, 14872, 129>> >>,
    << <<7, 5>>, -55, <<1813, 1900, 16885, 252>> >>,
    << <<10, 7>>, -55, <<9909, 13304, 13194, 245>> >>,
    << <<3, 2>>, -55, <<23581, 25750, 15901, 228>> >>,
    << <<11, 7>>, -55, <<25351, 13717, 24056, 212>> >>,
    << <<8, 5>>, -55, <<19989, 32246, 24314, 206>> >>,
    << <<13, 8>>, -55, <<28260, 13619, 20891, 201>> >>,
    << <<5, 3>>, -55, <<3306, 18739, 13389, 193>> >>,
    << <<12, 7>>, -55, <<24204, 7919, 13583, 184>> >>,
    << <<7, 4>>, -55, <<8307, 31748, 30949, 177>> >>,
    << <<9, 5>>, -55, <<2611, 9978, 8718, 169>> >>,
    << <<11, 6>>, -55, <<16312, 2228, 23490, 163>> >>,
    << <<13, 7>>, -55, <<18700, 10994, 28340, 159>> >>,
    << <<15, 8>>, -55, <<6613, 26439, 1162, 157>> >>,
    << <<2, 1>>, -55, <<460, 18303, 19114, 138>> >>,
    << <<15, 7>>, -56, <<7378, 31523, 8835, 240>> >>,
    << <<13, 6>>, -56, <<2420, 28885, 20201, 234>> >>,
    << <<11, 5>>, -56, <<12558, 2795, 30306, 226>> >>,
    << <<9, 4>>, -56, <<22519, 7432, 28102, 215>> >>,
    << <<16, 7>>, -56, <<394, 29647, 9320, 208>> >>,
    << <<7, 3>>, -56, <<15333, 19766, 19614, 198>> >>,
    << <<12, 5>>, -56, <<16324, 25875, 25898, 185>> >>,
    << <<5, 2>>, -56, <<29733, 297, 3607, 168>> >>,
    << <<13, 5>>, -56, <<12471, 15046, 3679, 152>> >>,
    << <<8, 3>>, -56, <<31249, 15674, 9899, 142>> >>,
    << <<11, 4>>, -56, <<8208, 4703, 30286, 130>> >>,
    << <<14, 5>>, -57, <<28038, 14584, 2556, 249>> >>,
    << <<3, 1>>, -57, <<12463, 6557, 30403, 203>> >>,
    << <<16, 5>>, -57, <<31559, 13311, 31522, 166>> >>,
    << <<13, 4>>, -57, <<4141, 2627, 26842, 158>> >>,
    << <<10, 3>>, -57, <<1006, 11002, 3954, 146>> >>,
    << <<7, 2>>, -58, <<32614, 12745, 12352, 247>> >>,
    << <<11, 3>>, -58, <<22867, 26946, 13109, 209>> >>,
    << <<15, 4>>, -58, <<3369, 27294, 21540, 192>> >>,
    << <<4, 1>>, -58, <<15604, 28738, 1366, 150>> >>,
    << <<13, 3>>, -59, <<23400, 7072, 628, 215>> >>,
    << <<9, 2>>, -59, <<17431, 3371, 321, 182>> >>,
    << <<14, 3>>, -59, <<6779, 6654, 2227, 154>> >>,
    << <<5, 1>>, -60, <<21366, 16410, 25855, 220>> >>,
    << <<16, 3>>, -60, <<7851, 27281, 6627, 158>> >>,
    << <<11, 2>>, -60, <<30504, 13716, 29993, 133>> >>,
    << <<6, 1>>, -61, <<21718, 25127, 14663, 162>> >>,
    << <<13, 2>>, -62, <<20474, 5418, 1926, 197>> >>,
    << <<7, 1>>, -63, <<10639, 14409, 1454, 239>> >>,
    << <<15, 2>>, -63, <<12757, 18462, 32366, 144>> >>,
    << <<8, 1>>, -64, <<10157, 2080, 28804, 175>> >>,
    << <<9, 1>>, -65, <<21594, 19020, 13256, 129>> >>,
    << <<10, 1>>, -67, <<31899, 27336, 13798, 190>> >>,
    << <<11, 1>>, -68, <<26468, 18206, 3408, 140>> >>,
    << <<12, 1>>, -70, <<15499, 30343, 5424, 206>> >>,
    << <<13, 1>>, -71, <<7576, 30512, 22548, 151>> >>,
    << <<14, 1>>, -73, <<5650, 31584, 6939, 223>> >>,
    << <<15, 1>>, -74, <<27704, 17487, 7538, 164>> >>,
    << <<16, 1>>, -76, <<1483, 30173, 21870, 241>> >> }

ExpNeg(lambda_val) ==
  LET row == CHOOSE r \in ExpNegRows : r[1] = lambda_val
  IN [sign |-> 1, e |-> row[2], m |-> row[3]]

(***************************************************************************)
(* poisson_pmf, soccer.py:385-392.  lambda_val is the ratio n/d whose      *)
(* nearest float the code holds.                                           *)
(***************************************************************************)
poisson_pmf(k, lambda_val) ==
  IF k < 0 THEN FloatZero
  ELSE FloatDivInt(FloatMul(FloatPow(FloatOfRat(lambda_val), k), ExpNeg(lambda_val)),
                   Factorial(k))

\* poisson_pmf over the arguments that occur, evaluated once
PmfGoals == 0..8
PmfTable ==
  [ arg \in { r[1] : r \in ExpNegRows } \X PmfGoals |-> poisson_pmf(arg[2], arg[1]) ]

(***************************************************************************)
(* find_most_probable_score, soccer.py:394-458                             *)
(***************************************************************************)
\* faulty variant: every odd total of a draw loses one goal, 1 included
AdjustTotalAlwaysDown(total_goals, result) ==
  IF result = 0 /\ total_goals % 2 /= 0 THEN total_goals - 1 ELSE total_goals

\* faulty variant: every odd total of a draw up to 1 becomes 2
AdjustTotalClamp(total_goals, result) ==
  IF result = 0 /\ total_goals % 2 /= 0
  THEN IF total_goals <= 1 THEN 2 ELSE total_goals - 1
  ELSE total_goals

\* the adjustment of lines 401-407
AdjustTotal(total_goals, result) ==
  IF result = 0 /\ total_goals % 2 /= 0
  THEN IF total_goals = 1 THEN 2 ELSE total_goals - 1
  ELSE total_goals

\* lines 418-424
IsValidResult(result, goals_A, goals_B) ==
  \/ (result = 0 /\ goals_A = goals_B)
  \/ (result = 1 /\ goals_A > goals_B)
  \/ (result = 2 /\ goals_B > goals_A)

\* one iteration of the for loop, lines 415-444
ScoreStep(best, goals_A, total_goals, team_a_avg_goals, team_b_avg_goals, result) ==
  LET goals_B == total_goals - goals_A
      prob_A == PmfTable[<<team_a_avg_goals, goals_A>>]
      prob_B == PmfTable[<<team_b_avg_goals, goals_B>>]
      current_probability == FloatMul(prob_A, prob_B)
      old_diff == Abs(best.most_probable_score[1] - best.most_probable_score[2])
      new_diff == Abs(goals_A - goals_B)
  IN IF ~IsValidResult(result, goals_A, goals_B) THEN best
     ELSE IF FloatLess(best.max_probability, current_probability)
       THEN [max_probability |-> current_probability,
             most_probable_score |-> <<goals_A, goals_B>>]
     ELSE IF current_probability = best.max_probability /\ new_diff < old_diff
       THEN [best EXCEPT !.most_probable_score = <<goals_A, goals_B>>]
     ELSE best

RECURSIVE ScoreLoop(_, _, _, _, _, _)
ScoreLoop(best, goals_A, total_goals, team_a_avg_goals, team_b_avg_goals, result) ==
  IF goals_A > total_goals THEN best
  ELSE ScoreLoop(ScoreStep(best, goals_A, total_goals, team_a_avg_goals, team_b_avg_goals, result),
                 goals_A + 1, total_goals, team_a_avg_goals, team_b_avg_goals, result)

\* lines 446-457: the default returned when the loop kept no score
DefaultScore(total_goals, result) ==
  IF result = 0 /\ total_goals % 2 = 0 THEN <<total_goals \div 2, total_goals \div 2>>
  ELSE IF result = 1 THEN <<total_goals, 0>>
  ELSE IF result = 2 THEN <<0, total_goals>>
  ELSE <<0, 0>>

\* the whole function: [raised |-> "none", value |-> <<gA, gB>>] on return,
\* [raised |-> "ValueError"] when line 409 or 411 raises
find_most_probable_score(total_goals_in, team_a_avg_goals, team_b_avg_goals, result) ==
  LET total_goals == AdjustTotal(total_goals_in, result)
      best == ScoreLoop([max_probability |-> FloatOfInt(-1), most_probable_score |-> <<-1, -1>>],
                        0, total_goals, team_a_avg_goals, team_b_avg_goals, result)
  IN IF total_goals < 0 THEN [raised |-> "ValueError"]
     ELSE IF result \notin {0, 1, 2} THEN [raised |-> "ValueError"]
     ELSE IF best.most_probable_score = <<-1, -1>>
       THEN [raised |-> "none", value |-> DefaultScore(total_goals, result), fallback |-> TRUE]
     ELSE [raised |-> "none", value |-> best.most_probable_score, fallback |-> FALSE]

(***************************************************************************)
(* get_match_prediction, soccer.py:465-490                                 *)
(***************************************************************************)
get_match_prediction(home_score_, away_score_) ==
  LET home_leads == RatLess(away_score_, home_score_)
      leader_score == IF home_leads THEN home_score_ ELSE away_score_
      follower_score == IF home_leads THEN away_score_ ELSE home_score_
      strong == IF home_leads THEN "(1W)" ELSE "(2W)"
      weak == IF home_leads THEN "(1W X)" ELSE "(2W X)"
  IN IF home_score_ = away_score_ THEN "(X)"
     ELSE IF follower_score = RatInt(0) THEN strong
     ELSE IF RatLess(RatMul(follower_score, RatInt(3)), leader_score) THEN strong
     ELSE weak

(***************************************************************************)
(* utc_to_local, soccer.py:32-40.  A timestamp is the UTC minute it names; *)
(* the text "%Y-%m-%d %H:%M" of a local minute orders as the minute does.  *)
(***************************************************************************)
NoDate == [iso |-> FALSE]
UtcDate(t) == [iso |-> TRUE, minute |-> t]
NotAvailable == [text |-> "N/A"]
LocalText(m) == [text |-> "date", minute |-> m]

\* America/Sao_Paulo is three hours behind UTC
LOCAL_TIMEZONE == -180

utc_to_local(utc_date_str) ==
  IF ~utc_date_str.iso THEN NotAvailable
  ELSE LocalText(utc_date_str.minute + LOCAL_TIMEZONE)

\* lines 602-610: the value of match_date_str after the try block
ParseMatchDate(match, old_match_date_str) ==
  LET match_date == utc_to_local(match.utcDate)
  IN IF match_date.text = "date" THEN Bound(match_date.minute)
     ELSE old_match_date_str

(***************************************************************************)
(* The composite scores and the result category, soccer.py:619-655         *)
(***************************************************************************)
\* faulty variant: the home side's base score leaves out its away win-rate
HomeWScoreHomeOnly(home_team_record) ==
  RatMul(RatInt(MAX_SCORE), home_team_record.Home_W_Weight)

\* line 619
HomeWScore(home_team_record) ==
  RatMul(RatMul(RatInt(MAX_SCORE), home_team_record.Home_W_Weight),
         home_team_record.Away_W_Weight)

\* line 621
AwayWScore(away_team_record) ==
  RatMul(RatMul(RatInt(MAX_SCORE), away_team_record.Away_W_Weight),
         away_team_record.Home_W_Weight)

\* lines 630-631
CombineScores(h2h_weight, w_score, indirect_weight) ==
  RatMul(RatMul(h2h_weight, w_score), indirect_weight)

\* lines 651-655
ResultCategory(hs, as) ==
  IF RatLess(as, hs) THEN 1
  ELSE IF RatLess(hs, as) THEN 2
  ELSE 0

\* lines 613-659 for one scheduled match, once both team records exist
Predict(finished, home_team, away_team, home_team_record, away_team_record) ==
  LET avg_gols_a == home_team_record.Average_Goals
      avg_gols_b == away_team_record.Average_Goals
      avg_goals == RatHalf(RatAdd(avg_gols_a, avg_gols_b))
      h2h_scores == get_confrontation_historical(finished, home_team, away_team)
      h2h_scores_indirect == get_confrontation_indirect(finished, home_team, away_team)
      hs == CombineScores(h2h_scores.Team_A_Weight, HomeWScore(home_team_record),
                          h2h_scores_indirect[1])
      as == CombineScores(h2h_scores.Team_B_Weight, AwayWScore(away_team_record),
                          h2h_scores_indirect[2])
      res == ResultCategory(hs, as)
      exact_total_goals == PyRound(avg_goals)
  IN [ avg_goals |-> avg_goals, home_score |-> hs, away_score |-> as, tmp_res |-> res,
       label |-> get_match_prediction(hs, as),
       exact |-> find_most_probable_score(exact_total_goals, avg_gols_a, avg_gols_b, res) ]

(***************************************************************************)
(* The inputs of one competition                                           *)
(***************************************************************************)
MaxFinished == 2    \* longest FINISHED_MATCHS of the prediction loop
MaxScheduled == 2   \* longest SCHEDULED_MATCHS of the prediction loop
MaxDate == 2        \* kickoff minutes 1..MaxDate

ScheduledFixtures == { <<"A", "B">>, <<"A", "X">> }

ScheduledRecords ==
  { [homeTeam |-> f[1], awayTeam |-> f[2], utcDate |-> d] :
      f \in ScheduledFixtures, d \in {NoDate} \cup { UtcDate(t) : t \in 1..MaxDate } }

Init ==
  /\ pc = "fetch"
  /\ call = [fn |-> "none"]
  /\ FINISHED_MATCHS = <<>>
  /\ SCHEDULED_MATCHS = <<>>
  /\ prediction_list = <<>>
  /\ match_date_str = Unbound
  /\ home_score = Unbound
  /\ away_score = Unbound
  /\ tmp_res = Unbound
  /\ exact_score = Unbound
  /\ prediction_list_sorted = <<>>
  /\ av_goals = Unbound
  /\ printed = <<>>
  /\ raised = "none"

loop_vars == <<prediction_list, match_date_str, home_score, away_score, tmp_res,
               exact_score, prediction_list_sorted, av_goals, printed, raised>>

\* get_finished_matches, lines 87-115: the provider's answer, record by record
FetchFinishedUpTo(records, n) ==
  /\ pc = "fetch"
  /\ Len(FINISHED_MATCHS) < n
  /\ \E m \in records : FINISHED_MATCHS' = Append(FINISHED_MATCHS, m)
  /\ UNCHANGED <<pc, call, SCHEDULED_MATCHS>>
  /\ UNCHANGED loop_vars

FetchFinished == FetchFinishedUpTo(FinishedRecords, MaxFinished)

\* get_scheduled_matches, lines 120-149
FetchScheduled ==
  /\ pc = "fetch"
  /\ Len(SCHEDULED_MATCHS) < MaxScheduled
  /\ \E m \in ScheduledRecords : SCHEDULED_MATCHS' = Append(SCHEDULED_MATCHS, m)
  /\ UNCHANGED <<pc, call, FINISHED_MATCHS>>
  /\ UNCHANGED loop_vars

\* lines 585-598: a competition with no scheduled or no finished match is
\* skipped; otherwise the prediction loop starts on an empty prediction_list
StartPredictions ==
  /\ pc = "fetch"
  /\ SCHEDULED_MATCHS /= <<>>
  /\ FINISHED_MATCHS /= <<>>
  /\ pc' = "loop"
  /\ prediction_list' = <<>>
  /\ UNCHANGED <<call, FINISHED_MATCHS, SCHEDULED_MATCHS, match_date_str, home_score,
                 away_score, tmp_res, exact_score, prediction_list_sorted, av_goals,
                 printed, raised>>

\* one iteration of the for loop, lines 599-669; an exception that nothing
\* catches ends the program (each call is made once: \E over its one result)
ProcessMatch ==
  /\ pc = "loop"
  /\ Len(prediction_list) < Len(SCHEDULED_MATCHS)
  /\ LET match == SCHEDULED_MATCHS[Len(prediction_list) + 1]
         home_team == match.homeTeam
         away_team == match.awayTeam
         date_str == ParseMatchDate(match, match_date_str)
     IN \E home_team_record \in { calculate_team_points(FINISHED_MATCHS, home_team) },
           away_team_record \in { calculate_team_points(FINISHED_MATCHS, away_team) } :
        /\ match_date_str' = date_str
        /\ IF home_team_record.raised /= "none" \/ away_team_record.raised /= "none"
           THEN \* line 613 or 614 raises
                /\ raised' = "ZeroDivisionError"
                /\ pc' = "error"
                /\ UNCHANGED <<prediction_list, home_score, away_score, tmp_res, exact_score>>
           ELSE \E p \in { Predict(FINISHED_MATCHS, home_team, away_team,
                                   home_team_record.value, away_team_record.value) } :
                /\ home_score' = Bound(p.home_score)
                /\ away_score' = Bound(p.away_score)
                /\ tmp_res' = Bound(p.tmp_res)
                /\ IF p.exact.raised /= "none"
                   THEN \* line 657 raises
                        /\ raised' = p.exact.raised
                        /\ pc' = "error"
                        /\ UNCHANGED <<prediction_list, exact_score>>
                   ELSE /\ exact_score' = Bound(p.exact.value)
                        /\ IF ~date_str.bound
                           THEN \* line 662 reads match_date_str before any assignment
                                /\ raised' = "NameError"
                                /\ pc' = "error"
                                /\ UNCHANGED prediction_list
                           ELSE /\ prediction_list' = Append(prediction_list,
                                     [ Date |-> date_str.value,
                                       HomeTeam |-> home_team,
                                       AwayTeam |-> away_team,
                                       Prediction |-> [score |-> p.exact.value, label |-> p.label],
                                       Avg_Goals |-> p.avg_goals,
                                       Home_Score |-> p.home_score,
                                       Away_Score |-> p.away_score ])
                                /\ UNCHANGED <<pc, raised>>
  /\ UNCHANGED <<call, FINISHED_MATCHS, SCHEDULED_MATCHS, prediction_list_sorted,
                 av_goals, printed>>

\* sorted(prediction_list, key=Date), line 671: a stable insertion
RECURSIVE InsertByDate(_, _)
InsertByDate(sorted, p) ==
  IF sorted = <<>> THEN <<p>>
  ELSE IF p.Date < sorted[Len(sorted)].Date
       THEN Append(InsertByDate(SubSeq(sorted, 1, Len(sorted) - 1), p), sorted[Len(sorted)])
       ELSE Append(sorted, p)

RECURSIVE SortedByDate(_)
SortedByDate(list) ==
  IF list = <<>> THEN <<>>
  ELSE InsertByDate(SortedByDate(SubSeq(list, 1, Len(list) - 1)), list[Len(list)])

\* lines 671-678: the loop is over, the list is sorted and av_goals is set
SortPredictions ==
  /\ pc = "loop"
  /\ Len(prediction_list) = Len(SCHEDULED_MATCHS)
  /\ prediction_list_sorted' = SortedByDate(prediction_list)
  /\ av_goals' = Bound(" < 1.5")
  /\ pc' = "print"
  /\ UNCHANGED <<call, FINISHED_MATCHS, SCHEDULED_MATCHS, prediction_list, match_date_str,
                 home_score, away_score, tmp_res, exact_score, printed, raised>>

\* lines 681-686: av_goals after the tests on one prediction's Avg_Goals
GoalBand(old_av_goals, avg) ==
  IF RatLess(Rat(7, 2), avg) /\ RatLeq(avg, Rat(9, 2)) THEN " > 3.5"
  ELSE IF RatLess(Rat(5, 2), avg) /\ RatLeq(avg, Rat(7, 2)) THEN " > 2.5"
  ELSE IF RatLess(Rat(3, 2), avg) /\ RatLeq(avg, Rat(5, 2)) THEN " > 1.5"
  ELSE old_av_goals

\* one iteration of the print loop, lines 679-694
PrintPrediction ==
  /\ pc = "print"
  /\ Len(printed) < Len(prediction_list_sorted)
  /\ LET p == prediction_list_sorted[Len(printed) + 1]
         band == GoalBand(av_goals.value, p.Avg_Goals)
     IN /\ av_goals' = Bound(band)
        /\ printed' = Append(printed,
             [ Date |-> p.Date, HomeTeam |-> p.HomeTeam, AwayTeam |-> p.AwayTeam,
               Prediction |-> p.Prediction, Band |-> band ])
        /\ pc' = IF Len(printed) + 1 = Len(prediction_list_sorted) THEN "done" ELSE "print"
  /\ UNCHANGED <<call, FINISHED_MATCHS, SCHEDULED_MATCHS, prediction_list, match_date_str,
                 home_score, away_score, tmp_res, exact_score, prediction_list_sorted, raised>>

(***************************************************************************)
(* A competition with one scheduled match, A at home to B, and a longer    *)
(* history: home wins and away wins and losses of A, away defeats of B at  *)
(* a team A never met, and a home win of B over A.                         *)
(***************************************************************************)
MaxScenario == 7    \* longest FINISHED_MATCHS of the scenario

ScenarioRecords ==
  { [homeTeam |-> "A", awayTeam |-> "X", fullTime |-> <<2, 1>>],
    [homeTeam |-> "X", awayTeam |-> "A", fullTime |-> <<0, 1>>],
    [homeTeam |-> "Y", awayTeam |-> "B", fullTime |-> <<2, 1>>],
    [homeTeam |-> "B", awayTeam |-> "A", fullTime |-> <<2, 1>>] }

InitScenario ==
  /\ pc = "fetch"
  /\ call = [fn |-> "none"]
  /\ FINISHED_MATCHS = <<>>
  /\ SCHEDULED_MATCHS = << [homeTeam |-> "A", awayTeam |-> "B", utcDate |-> UtcDate(1)] >>
  /\ prediction_list = <<>>
  /\ match_date_str = Unbound
  /\ home_score = Unbound
  /\ away_score = Unbound
  /\ tmp_res = Unbound
  /\ exact_score = Unbound
  /\ prediction_list_sorted = <<>>
  /\ av_goals = Unbound
  /\ printed = <<>>
  /\ raised = "none"

FetchScenario == FetchFinishedUpTo(ScenarioRecords, MaxScenario)

NextScenario ==
  \/ FetchScenario
  \/ StartPredictions
  \/ ProcessMatch
  \/ SortPredictions
  \/ PrintPrediction

SpecScenario == InitScenario /\ [][NextScenario]_vars

Next ==
  \/ FetchFinished
  \/ FetchScheduled
  \/ StartPredictions
  \/ ProcessMatch
  \/ SortPredictions
  \/ PrintPrediction

Spec == Init /\ [][Next]_vars

(***************************************************************************)
(* Calls of the engine's functions on a fetched match list.  Team names    *)
(* are compared for equality only and FinishedRecords is closed under      *)
(* renaming of teams, so the calls name the teams "A" and "B".             *)
(***************************************************************************)
NegTotals == 3      \* total_goals handed to find_most_probable_score: -NegTotals..MaxTotalGoals

Averages == { Rat(k, 2) : k \in 0..MaxAvgNum }
Results == {0, 1, 2, 3}

FetchMatches == FetchFinishedUpTo(FinishedRecords, MaxLen)

call_frame == <<FINISHED_MATCHS, SCHEDULED_MATCHS>>

CallPoints ==
  /\ pc = "fetch"
  /\ call' = [ fn |-> "calculate_team_points", team_name |-> "A",
               ret |-> calculate_team_points(FINISHED_MATCHS, "A") ]
  /\ pc' = "returned"
  /\ UNCHANGED call_frame
  /\ UNCHANGED loop_vars

CallHistorical ==
  /\ pc = "fetch"
  /\ call' = [ fn |-> "get_confrontation_historical", team_a |-> "A", team_b |-> "B",
               ret |-> get_confrontation_historical(FINISHED_MATCHS, "A", "B") ]
  /\ pc' = "returned"
  /\ UNCHANGED call_frame
  /\ UNCHANGED loop_vars

CallIndirect ==
  /\ pc = "fetch"
  /\ call' = [ fn |-> "get_confrontation_indirect", team_a |-> "A", team_b |-> "B",
               ret |-> get_confrontation_indirect(FINISHED_MATCHS, "A", "B") ]
  /\ pc' = "returned"
  /\ UNCHANGED call_frame
  /\ UNCHANGED loop_vars

CallScore ==
  /\ pc = "fetch"
  /\ \E total_goals \in (0 - NegTotals)..MaxTotalGoals, avg_a \in Averages,
        avg_b \in Averages, result \in Results :
       call' = [ fn |-> "find_most_probable_score", total_goals |-> total_goals,
                 team_a_avg_goals |-> avg_a, team_b_avg_goals |-> avg_b, result |-> result,
                 ret |-> find_most_probable_score(total_goals, avg_a, avg_b, result) ]
  /\ pc' = "returned"
  /\ UNCHANGED call_frame
  /\ UNCHANGED loop_vars

SpecPoints == Init /\ [][FetchMatches \/ CallPoints]_vars
SpecHistorical == Init /\ [][FetchMatches \/ CallHistorical]_vars
SpecIndirect == Init /\ [][FetchMatches \/ CallIndirect]_vars
SpecScore == Init /\ [][CallScore]_vars

(***************************************************************************)
(* What the claims speak of, stated on the match list itself               *)
(***************************************************************************)
Scored(m) == m.fullTime /= NoScore
Plays(m, team) == team \in {m.homeTeam, m.awayTeam}

\* the positions of the matches of `team` with a full-time score
QualifyingOf(matches, team) ==
  { i \in DOMAIN matches : Scored(matches[i]) /\ Plays(matches[i], team) }

\* goals scored by `team` in the matches at the positions S
RECURSIVE GoalsScored(_, _, _)
GoalsScored(S, matches, team) ==
  IF S = {} THEN 0
  ELSE LET i == CHOOSE k \in S : TRUE
           m == matches[i]
       IN (IF m.homeTeam = team THEN m.fullTime[1] ELSE m.fullTime[2])
            + GoalsScored(S \ {i}, matches, team)

HomeOf(matches, team) == { i \in QualifyingOf(matches, team) : matches[i].homeTeam = team }
AwayOf(matches, team) == { i \in QualifyingOf(matches, team) : matches[i].awayTeam = team }

\* the averages of goals scored per match that the team's matches allow
ScoredAverages(matches, team) ==
  LET all == QualifyingOf(matches, team)
      home == HomeOf(matches, team)
      away == AwayOf(matches, team)
  IN { Rat(GoalsScored(S, matches, team), Cardinality(S)) : S \in {all, home, away} \ {{}} }

WonBy(m, team) ==
  /\ Scored(m)
  /\ \/ (m.homeTeam = team /\ m.fullTime[1] > m.fullTime[2])
     \/ (m.awayTeam = team /\ m.fullTime[2] > m.fullTime[1])

\* the positions of the scored matches between team_a and team_b
DirectOf(matches, team_a, team_b) ==
  { i \in DOMAIN matches :
      /\ Scored(matches[i])
      /\ {matches[i].homeTeam, matches[i].awayTeam} = {team_a, team_b} }

Opponent(m, team) == IF m.homeTeam = team THEN m.awayTeam ELSE m.homeTeam

\* the positions j of the matches that link the fixture at position i of
\* team_a to team_b through a common opponent
LinksOf(matches, i, team_a, team_b) ==
  { j \in DOMAIN matches :
      /\ Scored(matches[j])
      /\ ~Plays(matches[j], team_a)
      /\ Plays(matches[j], team_b)
      /\ Plays(matches[j], Opponent(matches[i], team_a)) }

\* the positions of the fixtures of team_a against an opponent other than
\* team_b that have a link
LinkedFixtures(matches, team_a, team_b) ==
  { i \in QualifyingOf(matches, team_a) :
      /\ Opponent(matches[i], team_a) /= team_b
      /\ LinksOf(matches, i, team_a, team_b) /= {} }

Min(S) == CHOOSE x \in S : \A y \in S : x <= y

(***************************************************************************)
(* C2: for a team with no qualifying match, calculate_team_points returns  *)
(* normally with the four weights and Average_Goals equal to 0.            *)
(***************************************************************************)
C2_NoHistoryGivesZeros ==
  (call.fn = "calculate_team_points" /\ QualifyingOf(FINISHED_MATCHS, call.team_name) = {})
    => /\ call.ret.raised = "none"
       /\ call.ret.value.Home_W_Weight = RatInt(0)
       /\ call.ret.value.Away_W_Weight = RatInt(0)
       /\ call.ret.value.Home_WD_Weight = RatInt(0)
       /\ call.ret.value.Away_WD_Weight = RatInt(0)
       /\ call.ret.value.Average_Goals = RatInt(0)

(***************************************************************************)
(* C10: for a team with a qualifying match, Average_Goals is an average of *)
(* goals scored by the team per match: over its home matches, over its     *)
(* away matches, or over all its qualifying matches.                       *)
(***************************************************************************)
C10_AverageIsGoalsScoredPerMatch ==
  (call.fn = "calculate_team_points" /\ QualifyingOf(FINISHED_MATCHS, call.team_name) /= {})
    => /\ call.ret.raised = "none"
       /\ call.ret.value.Average_Goals \in ScoredAverages(FINISHED_MATCHS, call.team_name)

(***************************************************************************)
(* C3: with at least one indirect link and a win on some side, the weight  *)
(* returned for A is A's indirect win-rate times A's home win-rate among   *)
(* the links A played at home, and the weight for B is B's indirect        *)
(* win-rate times B's away win-rate among the links B played away.         *)
(***************************************************************************)
C3_WeightIsProductOfRates ==
  LET c == IndirectCounters(FINISHED_MATCHS, "A", "B")
  IN (call.fn = "get_confrontation_indirect" /\ c.total_matches > 0
        /\ (c.team_a_win > 0 \/ c.team_b_win > 0))
       => /\ call.ret[1] = RatMul(IndirectRate(c.team_a_win, c.total_matches),
                                  IndirectRate(c.team_a_win_home, c.total_matches_home))
          /\ call.ret[2] = RatMul(IndirectRate(c.team_b_win, c.total_matches),
                                  IndirectRate(c.team_b_win_away, c.total_matches_away))

(***************************************************************************)
(* C8: get_confrontation_historical gives each side the weight             *)
(* (its wins in the scored direct matches) / (number of scored direct      *)
(* matches, in either home/away order); with no such match it gives the    *)
(* neutral result; Total_Matches is the number of scored direct matches.   *)
(***************************************************************************)
C8_WeightIsWinsOverScoredDirect ==
  call.fn = "get_confrontation_historical" =>
    LET direct == DirectOf(FINISHED_MATCHS, call.team_a, call.team_b)
        n == Cardinality(direct)
        a_wins == Cardinality({ i \in direct : WonBy(FINISHED_MATCHS[i], call.team_a) })
        b_wins == Cardinality({ i \in direct : WonBy(FINISHED_MATCHS[i], call.team_b) })
    IN /\ call.ret.Total_Matches = n
       /\ n = 0 => call.ret = [ Team_A_Score |-> 0, Team_A_Weight |-> <<1, 1>>,
                                Team_B_Score |-> 0, Team_B_Weight |-> <<1, 1>>,
                                Total_Matches |-> 0 ]
       /\ n > 0 => /\ call.ret.Team_A_Weight = Rat(a_wins, n)
                   /\ call.ret.Team_B_Weight = Rat(b_wins, n)

\* three scored direct matches, one in each order won by its home side and one drawn
C8_Witness ==
  /\ call.fn = "get_confrontation_historical"
  /\ Cardinality(DirectOf(FINISHED_MATCHS, "A", "B")) = 3
  /\ \E i \in DOMAIN FINISHED_MATCHS :
       FINISHED_MATCHS[i].homeTeam = "B" /\ WonBy(FINISHED_MATCHS[i], "B")
  /\ call.ret.Team_A_Weight = <<1, 3>>
  /\ call.ret.Team_B_Weight = <<1, 3>>

(***************************************************************************)
(* C9: get_confrontation_indirect returns (1, 1) when no indirect link     *)
(* between A and B exists, and when links exist but neither A nor B wins   *)
(* a linked match (B's linked match being the first in list order).        *)
(***************************************************************************)
NobodyWinsALink(matches, team_a, team_b) ==
  \A i \in LinkedFixtures(matches, team_a, team_b) :
    /\ ~WonBy(matches[i], team_a)
    /\ ~WonBy(matches[Min(LinksOf(matches, i, team_a, team_b))], team_b)

C9_NeutralWithoutLinkOrWin ==
  (call.fn = "get_confrontation_indirect"
     /\ (\/ LinkedFixtures(FINISHED_MATCHS, call.team_a, call.team_b) = {}
         \/ NobodyWinsALink(FINISHED_MATCHS, call.team_a, call.team_b)))
    => call.ret = << <<1, 1>>, <<1, 1>> >>

\* two linked fixtures of A, and no win of A or B in a linked match
C9_Witness ==
  /\ call.fn = "get_confrontation_indirect"
  /\ Cardinality(LinkedFixtures(FINISHED_MATCHS, "A", "B")) = 2
  /\ NobodyWinsALink(FINISHED_MATCHS, "A", "B")
  /\ call.ret = << <<1, 1>>, <<1, 1>> >>

(***************************************************************************)
(* C6: for a draw and a total_goals >= 0, find_most_probable_score returns *)
(* (t/2, t/2), t being total_goals when even, 2 when total_goals = 1 and   *)
(* total_goals - 1 for every other odd total.                              *)
(***************************************************************************)
C6_DrawSplitsCorrectedTotal ==
  (call.fn = "find_most_probable_score" /\ call.result = 0 /\ call.total_goals >= 0)
    => LET t == IF call.total_goals % 2 = 0 THEN call.total_goals
                ELSE IF call.total_goals = 1 THEN 2
                ELSE call.total_goals - 1
       IN /\ call.ret.raised = "none"
          /\ call.ret.value = <<t \div 2, t \div 2>>

\* a draw with total 1 and different goal averages gives 1 - 1
C6_Witness ==
  /\ call.fn = "find_most_probable_score"
  /\ call.result = 0
  /\ call.total_goals = 1
  /\ call.team_a_avg_goals /= call.team_b_avg_goals
  /\ call.ret.raised = "none"
  /\ call.ret.value = <<1, 1>>

(***************************************************************************)
(* C7: find_most_probable_score raises the invalid-argument error and      *)
(* returns no scoreline for every negative total_goals, whatever the       *)
(* result category (draw, A-win, B-win).                                   *)
(***************************************************************************)
C7_NegativeTotalRaises ==
  (call.fn = "find_most_probable_score" /\ call.total_goals < 0 /\ call.result \in {0, 1, 2})
    => /\ call.ret.raised = "ValueError"
       /\ "value" \notin DOMAIN call.ret

\* the draw with total -1, which the odd-total adjustment turns into -2
C7_Witness ==
  /\ call.fn = "find_most_probable_score"
  /\ call.total_goals = -1
  /\ call.result = 0
  /\ call.ret.raised = "ValueError"

(***************************************************************************)
(* C1: with non-empty scheduled and finished lists the loop runs to its    *)
(* end without raising and yields one prediction per scheduled match, in   *)
(* order, also when a scheduled team has no qualifying finished match.     *)
(* (Stated for scheduled matches that all carry a timestamp.)              *)
(***************************************************************************)
AllDatesGiven == \A i \in DOMAIN SCHEDULED_MATCHS : SCHEDULED_MATCHS[i].utcDate.iso

C1_OnePredictionPerScheduledMatch ==
  (pc \in {"loop", "print", "done", "error"} /\ AllDatesGiven)
    => /\ raised = "none"
       /\ pc \in {"print", "done"} =>
            /\ Len(prediction_list) = Len(SCHEDULED_MATCHS)
            /\ \A i \in DOMAIN SCHEDULED_MATCHS :
                 /\ prediction_list[i].HomeTeam = SCHEDULED_MATCHS[i].homeTeam
                 /\ prediction_list[i].AwayTeam = SCHEDULED_MATCHS[i].awayTeam

(***************************************************************************)
(* The scheduled match the loop has last worked on, and its teams' records *)
(***************************************************************************)
HasProcessed == pc \in {"loop", "print", "done", "error"} /\ (pc = "error" \/ prediction_list /= <<>>)

LastMatch ==
  IF pc = "error" THEN SCHEDULED_MATCHS[Len(prediction_list) + 1]
  ELSE SCHEDULED_MATCHS[Len(prediction_list)]

\* positions of every match between the two teams, scored or not
MeetingsOf(matches, team_a, team_b) ==
  { i \in DOMAIN matches : {matches[i].homeTeam, matches[i].awayTeam} = {team_a, team_b} }

DrawnBy(m, team) == Scored(m) /\ Plays(m, team) /\ m.fullTime[1] = m.fullTime[2]

RECURSIVE GoalsConceded(_, _, _)
GoalsConceded(S, matches, team) ==
  IF S = {} THEN 0
  ELSE LET i == CHOOSE k \in S : TRUE
           m == matches[i]
       IN (IF m.homeTeam = team THEN m.fullTime[2] ELSE m.fullTime[1])
            + GoalsConceded(S \ {i}, matches, team)

\* a team's history: results and goals, home and away
History(matches, team) ==
  LET home == HomeOf(matches, team)
      away == AwayOf(matches, team)
      won(S) == Cardinality({ i \in S : WonBy(matches[i], team) })
      drawn(S) == Cardinality({ i \in S : DrawnBy(matches[i], team) })
  IN [ home_win |-> won(home), home_draw |-> drawn(home),
       home_lose |-> Cardinality(home) - won(home) - drawn(home),
       away_win |-> won(away), away_draw |-> drawn(away),
       away_lose |-> Cardinality(away) - won(away) - drawn(away),
       home_scored |-> GoalsScored(home, matches, team),
       home_conceded |-> GoalsConceded(home, matches, team),
       away_scored |-> GoalsScored(away, matches, team),
       away_conceded |-> GoalsConceded(away, matches, team) ]

(***************************************************************************)
(* C5: when the two teams of a scheduled match have identical histories    *)
(* and never met, the loop yields the result category draw, equal          *)
(* composite scores and a scoreline with gA = gB.                          *)
(***************************************************************************)
C5_IdenticalHistoriesGiveDraw ==
  (/\ HasProcessed
   /\ History(FINISHED_MATCHS, LastMatch.homeTeam) = History(FINISHED_MATCHS, LastMatch.awayTeam)
   /\ MeetingsOf(FINISHED_MATCHS, LastMatch.homeTeam, LastMatch.awayTeam) = {})
    => /\ raised /= "ZeroDivisionError"
       /\ tmp_res = Bound(0)
       /\ home_score = away_score
       /\ exact_score.bound
       /\ exact_score.value[1] = exact_score.value[2]

(***************************************************************************)
(* C4 as claimed: when the home team has 3 home games, all won, the away   *)
(* team has 3 away games, none won, and the two have no head-to-head match *)
(* and no indirect link, then home_final > away_final and the result       *)
(* category handed to the scoreline predictor is home-win (1).             *)
(***************************************************************************)
ThreeHomeWinsNoAwayWin ==
  LET F == FINISHED_MATCHS
      A == LastMatch.homeTeam
      B == LastMatch.awayTeam
  IN /\ Cardinality(HomeOf(F, A)) = 3
     /\ \A i \in HomeOf(F, A) : WonBy(F[i], A)
     /\ Cardinality(AwayOf(F, B)) = 3
     /\ \A i \in AwayOf(F, B) : ~WonBy(F[i], B)
     /\ MeetingsOf(F, A, B) = {}
     /\ LinkedFixtures(F, A, B) = {}

HomeTeamWonAway ==
  \E i \in AwayOf(FINISHED_MATCHS, LastMatch.homeTeam) :
    WonBy(FINISHED_MATCHS[i], LastMatch.homeTeam)

C4_ThreeHomeWinsGiveHomeWin ==
  (HasProcessed /\ ThreeHomeWinsNoAwayWin)
    => /\ raised = "none"
       /\ RatLess(away_score.value, home_score.value)
       /\ tmp_res = Bound(1)

(***************************************************************************)
(* C4 amended: in that situation home_final > away_final and the category  *)
(* is home-win exactly when the home team has also won an away game;       *)
(* otherwise both composite scores are 0 and the category is draw (0).     *)
(***************************************************************************)
C4_HomeWinNeedsAnAwayWin ==
  (HasProcessed /\ ThreeHomeWinsNoAwayWin)
    => /\ raised = "none"
       /\ IF HomeTeamWonAway
          THEN RatLess(away_score.value, home_score.value) /\ tmp_res = Bound(1)
          ELSE /\ home_score = Bound(RatInt(0))
               /\ away_score = Bound(RatInt(0))
               /\ tmp_res = Bound(0)

\* three home wins and an away win of the home team, three away defeats of
\* the away team: the loop has chosen home-win
C4_Witness ==
  /\ HasProcessed
  /\ ThreeHomeWinsNoAwayWin
  /\ HomeTeamWonAway
  /\ home_score = Bound(RatInt(MAX_SCORE))
  /\ away_score = Bound(RatInt(0))
  /\ tmp_res = Bound(1)

(***************************************************************************)
(* C11: for every total_goals >= 0 and every result in {0, 1, 2},          *)
(* find_most_probable_score returns a scoreline (gA, gB) with gA, gB >= 0  *)
(* and gA + gB equal to the corrected total, that agrees with the result   *)
(* category (gA = gB for a draw, gA > gB for an A-win, gB > gA for a       *)
(* B-win); the default of lines 446-457 is returned only for a draw.       *)
(***************************************************************************)
CorrectedTotal(total_goals, result) ==
  IF result = 0 /\ total_goals % 2 = 1
  THEN IF total_goals = 1 THEN 2 ELSE total_goals - 1
  ELSE total_goals

AgreesWithCategory(result, score) ==
  \/ (result = 0 /\ score[1] = score[2])
  \/ (result = 1 /\ score[1] > score[2])
  \/ (result = 2 /\ score[2] > score[1])

C11_ScorelineAgreesWithCategory ==
  (call.fn = "find_most_probable_score" /\ call.total_goals >= 0 /\ call.result \in {0, 1, 2})
    => /\ call.ret.raised = "none"
       /\ call.ret.value[1] >= 0
       /\ call.ret.value[2] >= 0
       /\ call.ret.value[1] + call.ret.value[2] = CorrectedTotal(call.total_goals, call.result)
       /\ AgreesWithCategory(call.result, call.ret.value)
       /\ call.ret.fallback => call.result = 0

(***************************************************************************)
(* C13: get_confrontation_indirect counts one link for each scored fixture *)
(* of A against an opponent X other than B for which a scored match of B   *)
(* against X without A exists, and no other; A's win in a link is the      *)
(* fixture's result and B's win is the result of the first such match of   *)
(* B and X in list order.  The weights returned are these win counts over  *)
(* the number of links.                                                    *)
(***************************************************************************)
FirstLinkOf(matches, i, team_a, team_b) == matches[Min(LinksOf(matches, i, team_a, team_b))]

C13_OneLinkPerFixtureFirstMatch ==
  call.fn = "get_confrontation_indirect" =>
    LET c == IndirectCounters(FINISHED_MATCHS, call.team_a, call.team_b)
        linked == LinkedFixtures(FINISHED_MATCHS, call.team_a, call.team_b)
        n == Cardinality(linked)
        a_wins == Cardinality({ i \in linked : WonBy(FINISHED_MATCHS[i], call.team_a) })
        b_wins == Cardinality({ i \in linked :
                    WonBy(FirstLinkOf(FINISHED_MATCHS, i, call.team_a, call.team_b), call.team_b) })
    IN /\ c.total_matches = n
       /\ c.team_a_win = a_wins
       /\ c.team_b_win = b_wins
       /\ (n > 0 /\ (a_wins > 0 \/ b_wins > 0)) => call.ret = <<Rat(a_wins, n), Rat(b_wins, n)>>

\* a fixture won by A whose opponent met B twice: B lost the first of the
\* two matches and won the second, and B's weight is 0
C13_Witness ==
  /\ call.fn = "get_confrontation_indirect"
  /\ \E i \in LinkedFixtures(FINISHED_MATCHS, "A", "B") :
       LET links == LinksOf(FINISHED_MATCHS, i, "A", "B")
       IN /\ Cardinality(links) = 2
          /\ WonBy(FINISHED_MATCHS[i], "A")
          /\ ~WonBy(FirstLinkOf(FINISHED_MATCHS, i, "A", "B"), "B")
          /\ \E j \in links : WonBy(FINISHED_MATCHS[j], "B")
  /\ IndirectCounters(FINISHED_MATCHS, "A", "B").total_matches = 1
  /\ call.ret = << <<1, 1>>, <<0, 1>> >>

(***************************************************************************)
(* C14: once the predictions are sorted, the Date of the prediction made   *)
(* for a scheduled match is the local minute of that match's own kickoff   *)
(* timestamp, and no minute at all when the match has no timestamp; when   *)
(* every match has a timestamp the sorted list is the prediction list in   *)
(* ascending order of kickoff, matches of equal kickoff in input order.    *)
(***************************************************************************)
DateIsOwn(i) ==
  LET utcDate == SCHEDULED_MATCHS[i].utcDate
  IN IF utcDate.iso
     THEN prediction_list[i].Date = utcDate.minute + LOCAL_TIMEZONE
     ELSE prediction_list[i].Date \notin Int

AscendingByDate(list) ==
  \A i, j \in DOMAIN list : i < j => list[i].Date <= list[j].Date

KeepsInputOrder(sorted, list) ==
  \A i \in DOMAIN list :
    LET SameDate(p) == p.Date = list[i].Date
    IN SelectSeq(sorted, SameDate) = SelectSeq(list, SameDate)

C14_SortedByOwnKickoff ==
  pc \in {"print", "done"} =>
    /\ Len(prediction_list) = Len(SCHEDULED_MATCHS)
    /\ \A i \in DOMAIN prediction_list : DateIsOwn(i)
    /\ AllDatesGiven =>
         /\ Len(prediction_list_sorted) = Len(prediction_list)
         /\ AscendingByDate(prediction_list_sorted)
         /\ KeepsInputOrder(prediction_list_sorted, prediction_list)

(***************************************************************************)
(* C15: the band label printed with a prediction is a function of that     *)
(* prediction's own Avg_Goals: " > 3.5" for 3.5 < avg <= 4.5, " > 2.5" for *)
(* 2.5 < avg <= 3.5, " > 1.5" for 1.5 < avg <= 2.5 and " < 1.5" otherwise, *)
(* whatever was printed before it.                                         *)
(***************************************************************************)
BandOf(avg) ==
  IF RatLess(Rat(7, 2), avg) /\ RatLeq(avg, Rat(9, 2)) THEN " > 3.5"
  ELSE IF RatLess(Rat(5, 2), avg) /\ RatLeq(avg, Rat(7, 2)) THEN " > 2.5"
  ELSE IF RatLess(Rat(3, 2), avg) /\ RatLeq(avg, Rat(5, 2)) THEN " > 1.5"
  ELSE " < 1.5"

C15_BandIsFunctionOfOwnAverage ==
  \A i \in DOMAIN printed :
    printed[i].Band = BandOf(prediction_list_sorted[i].Avg_Goals)

(***************************************************************************)
(* C16: for a team with a qualifying match, calculate_team_points returns  *)
(* the same record (counts, goal totals, ratios and Average_Goals) for     *)
(* every permutation of the match list.                                    *)
(***************************************************************************)
OrdersOf(n) ==
  { f \in [1..n -> 1..n] : \A i, j \in 1..n : f[i] = f[j] => i = j }

Permuted(matches, f) == [ i \in 1..Len(matches) |-> matches[f[i]] ]

C16_RecordIsOrderIndependent ==
  (call.fn = "calculate_team_points" /\ QualifyingOf(FINISHED_MATCHS, call.team_name) /= {})
    => \A f \in OrdersOf(Len(FINISHED_MATCHS)) :
         calculate_team_points(Permuted(FINISHED_MATCHS, f), call.team_name) = call.ret

(***************************************************************************)
(* C12: for an A-win or a B-win, a total_goals >= 1 and positive goal      *)
(* averages, the split returned by find_most_probable_score is consistent  *)
(* with the category, no consistent split of the same total has a larger   *)
(* probability PoissonPMF(gA; avg_A) x PoissonPMF(gB; avg_B), and among    *)
(* the consistent splits of that same probability it has the smallest      *)
(* |gA - gB|.  (All splits of one call share the factor e^-(avg_A + avg_B) *)
(* of the probability; SplitWeight is the probability without it.)         *)
(***************************************************************************)
SplitWeight(score, avg_a, avg_b) ==
  RatMul(RatMul(RatPow(avg_a, score[1]), Rat(1, Factorial(score[1]))),
         RatMul(RatPow(avg_b, score[2]), Rat(1, Factorial(score[2]))))

ConsistentSplits(total_goals, result) ==
  { score \in { <<i, total_goals - i>> : i \in 0..total_goals } :
      AgreesWithCategory(result, score) }

C12_ReturnsMostProbableSplit ==
  (call.fn = "find_most_probable_score" /\ call.result \in {1, 2} /\ call.total_goals >= 1
     /\ RatLess(RatInt(0), call.team_a_avg_goals) /\ RatLess(RatInt(0), call.team_b_avg_goals))
    => /\ call.ret.raised = "none"
       /\ call.ret.value \in ConsistentSplits(call.total_goals, call.result)
       /\ \A score \in ConsistentSplits(call.total_goals, call.result) :
            LET mine == SplitWeight(call.ret.value, call.team_a_avg_goals, call.team_b_avg_goals)
                other == SplitWeight(score, call.team_a_avg_goals, call.team_b_avg_goals)
            IN /\ RatLeq(other, mine)
               /\ other = mine =>
                    Abs(call.ret.value[1] - call.ret.value[2]) <= Abs(score[1] - score[2])

====
